---- MODULE Spec2Model ----
(***************************************************************************)
(* Model of legal_dataset/legal_document_loader.py: the text cleaner       *)
(* (LegalDocumentLoader.clean_text), the archive loader (load_from_url,    *)
(* with remove_new_lines) and the tabular loader (load_from_csv).          *)
(*                                                                         *)
(* Text is a sequence of one-character strings; the bytes of a file are a  *)
(* sequence of byte values (0..255).  Three groups of variables hold the   *)
(* state of the three operations; each has its own specification.          *)
(***************************************************************************)
EXTENDS Integers, Sequences, FiniteSets, TLC

VARIABLES
    \* ---- clean_text, applied repeatedly to its own output
    cdoc,        \* the argument of the first call
    cprev,       \* the argument of the latest call
    cout,        \* the value the latest call returned (cdoc before any call)
    ccalls,      \* number of calls made
    craised,     \* the latest call raised (a str pattern applied to bytes)
    \* ---- load_from_url
    archive,     \* the files the ZIP at the URL holds, in directory-walk order
    pc,          \* position in load_from_url
    zipExists,   \* "legal_documents.zip" exists on disk
    dirExists,   \* "legal_documents" exists on disk
    idx,         \* number of files of the walk already visited
    opened,      \* walk positions of the files open() was called on
    legal_documents,  \* the list being built
    \* ---- load_from_csv
    csv,         \* the table in the file
    cpc,         \* position in load_from_csv
    name_list,   \* df.index.to_list()
    clean_col,   \* df['Clean Text'], filled row by row by apply
    text_list,   \* the filtered list of cleaned texts
    zpos,        \* number of (name, text) pairs zip has delivered
    csv_documents     \* the list being built

cvars == <<cdoc, cprev, cout, ccalls, craised>>
uvars == <<archive, pc, zipExists, dirExists, idx, opened, legal_documents>>
tvars == <<csv, cpc, name_list, clean_col, text_list, zpos, csv_documents>>
vars == <<cvars, uvars, tvars>>

\* ------------------------------------------------------------------ bounds
\* longest argument of clean_text
MaxLen == 6
\* longest file (in bytes) of a single-file archive
MaxFileLen == 6
\* longest file (in bytes) of a multi-file archive
MaxWalkFileLen == 1
\* most files in a multi-file archive
MaxFiles == 2
\* most rows of the table
MaxRows == 3
\* most successive calls of clean_text on its own output
MaxCalls == 2
\* longest bytes argument of clean_text
MaxBytesLen == 2

\* ------------------------------------------------------------ characters
SP == " "
NL == "\n"
TAB == "\t"

SeqsUpTo(S, n) == UNION {[1..k -> S] : k \in 0..n}

\* ============================================================ clean_text
\* A value passed to clean_text: a str, a bytes object or anything else.
StrVal(s) == [kind |-> "str", chars |-> s]
BytesVal(s) == [kind |-> "bytes", chars |-> s]
OtherVal == [kind |-> "other", chars |-> <<>>]

\* length of the run of newlines that starts at position i of s (0 if none)
RECURSIVE NewlineRun(_, _)
NewlineRun(s, i) ==
    IF i <= Len(s) /\ s[i] = NL THEN 1 + NewlineRun(s, i + 1) ELSE 0

\* re.sub('\n{1,} | \n', '\n', s) from position i on: the leftmost match at
\* each position, first alternative first; '\n{1,} ' is greedy and can only
\* match the whole run of newlines followed by a space.
RECURSIVE SubSpaces(_, _)
SubSpaces(s, i) ==
    IF i > Len(s) THEN <<>>
    ELSE LET k == NewlineRun(s, i) IN
         IF k >= 1 /\ i + k <= Len(s) /\ s[i + k] = SP
            THEN <<NL>> \o SubSpaces(s, i + k + 1)
         ELSE IF s[i] = SP /\ i + 1 <= Len(s) /\ s[i + 1] = NL
            THEN <<NL>> \o SubSpaces(s, i + 2)
         ELSE <<s[i]>> \o SubSpaces(s, i + 1)

\* re.sub('\n{2,}', '\n\n', s) left unapplied
RECURSIVE SubNewlinesSkipped(_, _)
SubNewlinesSkipped(s, i) ==
    IF i > Len(s) THEN <<>> ELSE <<s[i]>> \o SubNewlinesSkipped(s, i + 1)

\* re.sub('\n{2,}', '\n\n', s) from position i on
RECURSIVE SubNewlines(_, _)
SubNewlines(s, i) ==
    IF i > Len(s) THEN <<>>
    ELSE LET k == NewlineRun(s, i) IN
         IF k >= 2 THEN <<NL, NL>> \o SubNewlines(s, i + k)
         ELSE <<s[i]>> \o SubNewlines(s, i + 1)

\* clean_text(doc): [raised, val].  With a bytes argument re.sub raises
\* TypeError (a str pattern on a bytes-like object).
clean_text(doc) ==
    IF doc.kind = "str"
       THEN [raised |-> FALSE,
             val |-> StrVal(SubNewlines(SubSpaces(doc.chars, 1), 1))]
    ELSE IF doc.kind = "bytes"
       THEN [raised |-> TRUE, val |-> doc]
    ELSE [raised |-> FALSE, val |-> StrVal(<<>>)]

CleanChars == {"a", "b", SP, NL}
CleanInputs ==
    {StrVal(s) : s \in SeqsUpTo(CleanChars, MaxLen)}
    \cup {BytesVal(s) : s \in SeqsUpTo({"a", NL}, MaxBytesLen)}
    \cup {OtherVal}

\* One call of clean_text on the value the previous call returned.
CallCleanText ==
    /\ ccalls < MaxCalls
    /\ ~craised
    /\ LET r == clean_text(cout) IN
         /\ cprev' = cout
         /\ cout' = r.val
         /\ craised' = r.raised
    /\ ccalls' = ccalls + 1
    /\ UNCHANGED <<cdoc, uvars, tvars>>

\* ========================================================= load_from_url
\* The character a byte decodes to under latin-1 (open(..., encoding=
\* "latin-1")): byte b is code point b.
Latin1Char(b) ==
    CASE b = 9 -> TAB
      [] b = 10 -> NL
      [] b = 32 -> SP
      [] b = 97 -> "a"

\* The byte str.encode('latin-1') gives for a character.
Latin1Byte(c) ==
    CASE c = TAB -> 9
      [] c = NL -> 10
      [] c = SP -> 32
      [] c = "a" -> 97

Latin1Decode(bs) == [i \in 1..Len(bs) |-> Latin1Char(bs[i])]
Latin1Encode(s) == [i \in 1..Len(s) |-> Latin1Byte(s[i])]

\* convert_to_utf8(bytes) of the utf8_encoder module: the text the legacy
\* single-byte bytes stand for.
convert_to_utf8(bs) == Latin1Decode(bs)

\* position of the first newline of s at or after i (Len(s) + 1 if none)
RECURSIVE FirstNewline(_, _)
FirstNewline(s, i) ==
    IF i > Len(s) \/ s[i] = NL THEN i ELSE FirstNewline(s, i + 1)

\* str.splitlines(): the pieces between line breaks, no empty piece after a
\* final line break.
RECURSIVE SplitLines(_)
SplitLines(s) ==
    IF s = <<>> THEN <<>>
    ELSE LET n == FirstNewline(s, 1) IN
         <<SubSeq(s, 1, n - 1)>> \o SplitLines(SubSeq(s, n + 1, Len(s)))

\* s without its leading characters that belong to ws
RECURSIVE LStrip(_, _)
LStrip(s, ws) ==
    IF s # <<>> /\ Head(s) \in ws THEN LStrip(Tail(s), ws) ELSE s

\* s without its trailing characters that belong to ws
RECURSIVE RStrip(_, _)
RStrip(s, ws) ==
    IF s # <<>> /\ s[Len(s)] \in ws
       THEN RStrip(SubSeq(s, 1, Len(s) - 1), ws) ELSE s

\* line.strip(' ')
StripSpaces(line) == RStrip(LStrip(line, {SP}), {SP})

\* line.strip(): all whitespace
StripWhitespace(line) == RStrip(LStrip(line, {SP, TAB, NL}), {SP, TAB, NL})

\* remove_new_lines appending the line as read instead of the stripped one
RECURSIVE remove_new_lines_unstripped(_)
remove_new_lines_unstripped(lines) ==
    IF lines = <<>> THEN <<>>
    ELSE IF StripSpaces(Head(lines)) = <<>>
       THEN remove_new_lines_unstripped(Tail(lines))
    ELSE <<Head(lines)>> \o remove_new_lines_unstripped(Tail(lines))

\* remove_new_lines(lines): every line is a str here (it comes from
\* splitlines), is stripped of spaces, and is appended unless empty.
RECURSIVE remove_new_lines(_)
remove_new_lines(lines) ==
    IF lines = <<>> THEN <<>>
    ELSE LET line == StripSpaces(Head(lines)) IN
         IF line = <<>> THEN remove_new_lines(Tail(lines))
         ELSE <<line>> \o remove_new_lines(Tail(lines))

\* "\n".join(lines)
RECURSIVE Join(_)
Join(lines) ==
    IF lines = <<>> THEN <<>>
    ELSE IF Len(lines) = 1 THEN Head(lines)
    ELSE Head(lines) \o <<NL>> \o Join(Tail(lines))

\* file.endswith(".txt") with the comparison ignoring case
EndsWithTxtAnyCase(name) ==
    /\ Len(name) >= 4
    /\ SubSeq(name, Len(name) - 3, Len(name))
         \in {<<".", "t", "x", "t">>, <<".", "T", "X", "T">>}

\* file.endswith(".txt")
EndsWithTxt(name) ==
    /\ Len(name) >= 4
    /\ SubSeq(name, Len(name) - 3, Len(name)) = <<".", "t", "x", "t">>

\* f.read().splitlines() of a file opened with encoding="latin-1"
ReadLines(f) == SplitLines(Latin1Decode(f.bytes))

\* The record built from the kept lines of a file (clean_text, not empty).
DocumentOf(file, clean) ==
    [Title |-> convert_to_utf8(Latin1Encode(StripWhitespace(clean[1]))),
     Filename |-> file,
     Text |-> convert_to_utf8(Latin1Encode(Join(Tail(clean))))]

\* an except clause that lets the exception out of load_from_url
ExceptReraises(err) == "raised"

\* The two except clauses: the error is printed and the walk goes on.
ExceptPc(err) == "walk"

\* One iteration of the inner loop for file f: whether f is opened, the
\* records it appends, and where control goes.
VisitFile(f) ==
    IF ~EndsWithTxt(f.name)
       THEN [opened |-> FALSE, docs |-> <<>>, pc |-> "walk"]
    ELSE IF f.err # "none"
       THEN [opened |-> TRUE, docs |-> <<>>, pc |-> ExceptPc(f.err)]
    ELSE LET clean == remove_new_lines(ReadLines(f)) IN
         IF Len(clean) # 0
            THEN [opened |-> TRUE, docs |-> <<DocumentOf(f.name, clean)>>,
                  pc |-> "walk"]
         ELSE [opened |-> TRUE, docs |-> <<>>, pc |-> "walk"]

\* ---- the archives
TxtName == <<"a", ".", "t", "x", "t">>
MdName == <<"b", ".", "m", "d">>
UpperName == <<"c", ".", "T", "X", "T">>
BareName == <<"t", "x", "t">>

\* A file of the archive: its base name, its bytes, and the error that the
\* try block raises for it ("none", "decode" for UnicodeDecodeError,
\* "other" for any other Exception).
FilesOf(names, bytes, n) ==
    {[name |-> nm, bytes |-> bs, err |-> "none"] :
        nm \in names, bs \in SeqsUpTo(bytes, n)}
    \cup {[name |-> nm, bytes |-> <<>>, err |-> e] :
        nm \in names, e \in {"decode", "other"}}

\* archives of at most one file, with every content up to MaxFileLen bytes
SingleFileArchives ==
    {<<>>} \cup
    {<<f>> : f \in FilesOf({TxtName, BareName},
                           {9, 10, 32, 97}, MaxFileLen)}

\* archives of up to MaxFiles files
WalkArchives ==
    SeqsUpTo(FilesOf({TxtName, MdName, UpperName}, {10, 32, 97},
                     MaxWalkFileLen),
             MaxFiles)

\* ---- the steps of load_from_url
\* requests.get(url) returns
Fetch ==
    /\ pc = "start"
    /\ pc' = "fetched"
    /\ UNCHANGED <<archive, zipExists, dirExists, idx, opened,
                   legal_documents, cvars, tvars>>

\* requests.get(url) raises (no connection, bad URL)
FetchRaises ==
    /\ pc = "start"
    /\ pc' = "raised"
    /\ UNCHANGED <<archive, zipExists, dirExists, idx, opened,
                   legal_documents, cvars, tvars>>

\* open(zip_filename, "wb") and file.write(response.content)
WriteZip ==
    /\ pc = "fetched"
    /\ zipExists' = TRUE
    /\ pc' = "written"
    /\ UNCHANGED <<archive, dirExists, idx, opened, legal_documents,
                   cvars, tvars>>

\* open raises (the file is not created) or write raises (it was created)
WriteZipRaises ==
    /\ pc = "fetched"
    /\ \E created \in BOOLEAN : zipExists' = created
    /\ pc' = "raised"
    /\ UNCHANGED <<archive, dirExists, idx, opened, legal_documents,
                   cvars, tvars>>

\* zipfile.ZipFile(...).extractall(extract_directory): the directory is
\* created with the first member, so an empty archive creates none.
Extract ==
    /\ pc = "written"
    /\ dirExists' = (archive # <<>>)
    /\ legal_documents' = <<>>
    /\ idx' = 0
    /\ pc' = "walk"
    /\ UNCHANGED <<archive, zipExists, opened, cvars, tvars>>

\* ZipFile raises BadZipFile (nothing extracted) or extractall raises part
\* way (the directory was created)
ExtractRaises ==
    /\ pc = "written"
    /\ \E partial \in BOOLEAN : dirExists' = partial
    /\ pc' = "raised"
    /\ UNCHANGED <<archive, zipExists, idx, opened, legal_documents,
                   cvars, tvars>>

\* one file of the walk
WalkFile ==
    /\ pc = "walk"
    /\ idx < Len(archive)
    /\ LET r == VisitFile(archive[idx + 1]) IN
         /\ opened' = IF r.opened THEN opened \cup {idx + 1} ELSE opened
         /\ legal_documents' = legal_documents \o r.docs
         /\ pc' = r.pc
    /\ idx' = idx + 1
    /\ UNCHANGED <<archive, zipExists, dirExists, cvars, tvars>>

\* os.remove(zip_filename), after the walk
RemoveZip ==
    /\ pc = "walk"
    /\ idx = Len(archive)
    /\ zipExists' = FALSE
    /\ pc' = "rmzip"
    /\ UNCHANGED <<archive, dirExists, idx, opened, legal_documents,
                   cvars, tvars>>

\* the bottom-up walk that removes files and folders, then
\* os.rmdir(extract_directory)
RemoveTree ==
    /\ pc = "rmzip"
    /\ dirExists
    /\ dirExists' = FALSE
    /\ pc' = "cleaned"
    /\ UNCHANGED <<archive, zipExists, idx, opened, legal_documents,
                   cvars, tvars>>

\* os.rmdir(extract_directory) raises FileNotFoundError: no directory
RemoveTreeRaises ==
    /\ pc = "rmzip"
    /\ ~dirExists
    /\ pc' = "raised"
    /\ UNCHANGED <<archive, zipExists, dirExists, idx, opened,
                   legal_documents, cvars, tvars>>

\* return legal_documents
ReturnDocuments ==
    /\ pc = "cleaned"
    /\ pc' = "returned"
    /\ UNCHANGED <<archive, zipExists, dirExists, idx, opened,
                   legal_documents, cvars, tvars>>

\* ========================================================= load_from_csv
\* An index label as pd.read_csv gives it: a str, or something else (a
\* number, NaN) that has no title() method.
StrLabel(s) == [kind |-> "str", chars |-> s]
OtherLabel == [kind |-> "other", chars |-> <<>>]

IsLower(c) == c \in {"a", "b"}
IsUpper(c) == c \in {"A", "B"}
ToUpper(c) == CASE c = "a" -> "A" [] c = "b" -> "B" [] OTHER -> c
ToLower(c) == CASE c = "A" -> "a" [] c = "B" -> "b" [] OTHER -> c

\* name_item used as it is, title() left out
str_title_skipped(s) == s

\* str.title(): a letter that follows a letter is lowercased, any other
\* letter is uppercased, other characters are kept.
str_title(s) ==
    [i \in 1..Len(s) |->
        IF i > 1 /\ (IsLower(s[i - 1]) \/ IsUpper(s[i - 1]))
           THEN ToLower(s[i]) ELSE ToUpper(s[i])]

\* the check of the 'Text' column left out
HasTextColumnUnchecked(df) == TRUE

\* 'Text' in df.columns
HasTextColumn(df) == "Text" \in df.columns

\* The lambda applied to one cell of the 'Text' column.
CleanCell(x) ==
    IF x.kind \in {"str", "bytes"} THEN clean_text(x).val ELSE StrVal(<<>>)

\* doc and isinstance(doc, str)
IsKeptText(doc) == doc.kind = "str" /\ doc.chars # <<>>

Min(a, b) == IF a <= b THEN a ELSE b

\* ---- the tables
Labels == {StrLabel(<<"a", "b">>), StrLabel(<<"b", SP, "A">>), OtherLabel}
Cells == {OtherVal, StrVal(<<"a">>), StrVal(<<"b", SP, NL, NL, NL, "b">>)}

\* A table read with index_col=0: the index labels, the names of the
\* columns, and the cells of its one data column (named 'Text' or not).
Tables ==
    {[columns |-> cols, index |-> [i \in DOMAIN r |-> r[i][1]],
      cells |-> [i \in DOMAIN r |-> r[i][2]]] :
        cols \in {{"Text"}, {"Body"}},
        r \in UNION {[1..n -> Labels \X Cells] : n \in 0..MaxRows}}

\* ---- the steps of load_from_csv
\* pd.read_csv(file_path, index_col=0) and df.index.to_list()
ReadCsv ==
    /\ cpc = "start"
    /\ name_list' = csv.index
    /\ cpc' = "read"
    /\ UNCHANGED <<csv, clean_col, text_list, zpos, csv_documents,
                   cvars, uvars>>

\* the 'Text' column is missing: ValueError
RaiseValueError ==
    /\ cpc = "read"
    /\ ~HasTextColumn(csv)
    /\ cpc' = "value_error"
    /\ UNCHANGED <<csv, name_list, clean_col, text_list, zpos,
                   csv_documents, cvars, uvars>>

\* the 'Text' column is there: apply starts
StartApply ==
    /\ cpc = "read"
    /\ HasTextColumn(csv)
    /\ clean_col' = <<>>
    /\ cpc' = "apply"
    /\ UNCHANGED <<csv, name_list, text_list, zpos, csv_documents,
                   cvars, uvars>>

\* apply calls the lambda on the next cell
ApplyClean ==
    /\ cpc = "apply"
    /\ Len(clean_col) < Len(csv.cells)
    /\ clean_col' = Append(clean_col, CleanCell(csv.cells[Len(clean_col) + 1]))
    /\ UNCHANGED <<csv, cpc, name_list, text_list, zpos, csv_documents,
                   cvars, uvars>>

\* tolist(), the filter of empty values, and the empty result list
FilterTexts ==
    /\ cpc = "apply"
    /\ Len(clean_col) = Len(csv.cells)
    /\ text_list' = SelectSeq(clean_col, IsKeptText)
    /\ csv_documents' = <<>>
    /\ zpos' = 0
    /\ cpc' = "zip"
    /\ UNCHANGED <<csv, name_list, clean_col, cvars, uvars>>

\* one iteration of the loop over zip(name_list, text_list)
ZipPair ==
    /\ cpc = "zip"
    /\ zpos < Min(Len(name_list), Len(text_list))
    /\ name_list[zpos + 1].kind = "str"
    /\ csv_documents' = Append(csv_documents,
           [Title |-> str_title(name_list[zpos + 1].chars),
            Text |-> text_list[zpos + 1].chars])
    /\ zpos' = zpos + 1
    /\ UNCHANGED <<csv, cpc, name_list, clean_col, text_list, cvars, uvars>>

\* name_item.title() on a label that is no str: AttributeError
ZipPairRaises ==
    /\ cpc = "zip"
    /\ zpos < Min(Len(name_list), Len(text_list))
    /\ name_list[zpos + 1].kind # "str"
    /\ cpc' = "attribute_error"
    /\ UNCHANGED <<csv, name_list, clean_col, text_list, zpos,
                   csv_documents, cvars, uvars>>

\* return legal_documents
ReturnCsv ==
    /\ cpc = "zip"
    /\ zpos = Min(Len(name_list), Len(text_list))
    /\ cpc' = "returned"
    /\ UNCHANGED <<csv, name_list, clean_col, text_list, zpos,
                   csv_documents, cvars, uvars>>

\* ======================================================== specifications
\* the state of an operation that is not running
CleanIdle ==
    /\ cdoc = OtherVal /\ cprev = OtherVal /\ cout = OtherVal
    /\ ccalls = 0 /\ craised = FALSE

UrlStart ==
    /\ pc = "start" /\ zipExists = FALSE /\ dirExists = FALSE
    /\ idx = 0 /\ opened = {} /\ legal_documents = <<>>

UrlIdle == archive = <<>> /\ UrlStart

CsvStart ==
    /\ cpc = "start" /\ name_list = <<>> /\ clean_col = <<>>
    /\ text_list = <<>> /\ zpos = 0 /\ csv_documents = <<>>

CsvIdle ==
    /\ csv = [columns |-> {"Text"}, index |-> <<>>, cells |-> <<>>]
    /\ CsvStart

\* clean_text on every value up to MaxLen characters
InitClean ==
    /\ cdoc \in CleanInputs
    /\ cprev = cdoc /\ cout = cdoc /\ ccalls = 0 /\ craised = FALSE
    /\ UrlIdle /\ CsvIdle

NextClean == CallCleanText

SpecClean == InitClean /\ [][NextClean]_vars

NextUrl ==
    \/ Fetch \/ FetchRaises
    \/ WriteZip \/ WriteZipRaises
    \/ Extract \/ ExtractRaises
    \/ WalkFile
    \/ RemoveZip \/ RemoveTree \/ RemoveTreeRaises
    \/ ReturnDocuments

\* load_from_url on an archive of one file
InitFile ==
    /\ archive \in SingleFileArchives
    /\ UrlStart /\ CleanIdle /\ CsvIdle

SpecFile == InitFile /\ [][NextUrl]_vars

\* load_from_url on an archive of up to MaxFiles files
InitUrl ==
    /\ archive \in WalkArchives
    /\ UrlStart /\ CleanIdle /\ CsvIdle

SpecUrl == InitUrl /\ [][NextUrl]_vars

NextCsv ==
    \/ ReadCsv \/ RaiseValueError \/ StartApply \/ ApplyClean
    \/ FilterTexts \/ ZipPair \/ ZipPairRaises \/ ReturnCsv

\* load_from_csv on every table up to MaxRows rows
InitCsv ==
    /\ csv \in Tables
    /\ CsvStart /\ CleanIdle /\ UrlIdle

SpecCsv == InitCsv /\ [][NextCsv]_vars

\* ================================================================ claims
\* ---- helpers that state the claims
NoThreeNewlines(s) ==
    \A i \in 1..Len(s) : ~(NewlineRun(s, i) >= 3)

NoSpaceBeforeNewline(s) ==
    \A i \in 1..(Len(s) - 1) : ~(s[i] = SP /\ s[i + 1] = NL)

\* s with every newline dropped that two more newlines follow
RECURSIVE RunsCutToTwo(_)
RunsCutToTwo(s) ==
    IF Len(s) < 3 THEN s
    ELSE IF s[1] = NL /\ s[2] = NL /\ s[3] = NL THEN RunsCutToTwo(Tail(s))
    ELSE <<s[1]>> \o RunsCutToTwo(Tail(s))

HasSuffixDotTxt(name) ==
    \E pre \in {SubSeq(name, 1, k) : k \in 0..Len(name)} :
        name = pre \o <<".", "t", "x", "t">>

NonBlankLine(line) == \E i \in 1..Len(line) : line[i] # SP

\* the file raises when it is read or processed
IsFailingFile(f) == HasSuffixDotTxt(f.name) /\ f.err # "none"
IsNotFailingFile(f) == ~IsFailingFile(f)

\* the file is one that contributes a record
Contributes(f) ==
    /\ HasSuffixDotTxt(f.name)
    /\ f.err = "none"
    /\ \E i \in 1..Len(ReadLines(f)) : NonBlankLine(ReadLines(f)[i])

\* the records a walk over files appends
RECURSIVE WalkRecords(_)
WalkRecords(files) ==
    IF files = <<>> THEN <<>>
    ELSE VisitFile(Head(files)).docs \o WalkRecords(Tail(files))

\* the lines of the only file of the archive that are not blank, as read
KeptAsRead == SelectSeq(ReadLines(archive[1]), NonBlankLine)

\* the cleaned texts of the table that are non-empty strings, in row order
KeptTexts ==
    SelectSeq([i \in DOMAIN csv.cells |-> CleanCell(csv.cells[i])],
              IsKeptText)

AllLabelsStr == \A i \in DOMAIN csv.index : csv.index[i].kind = "str"

\* the title-cased form of the labels of Labels
TitleCased(label) ==
    CASE label.chars = <<"a", "b">> -> <<"A", "b">>
      [] label.chars = <<"b", SP, "A">> -> <<"B", SP, "A">>

\* C1: whenever load_from_url has ended, by a return or by an exception,
\* neither legal_documents.zip nor the directory legal_documents exists.
C1_NoTemporaryLeftAtExit ==
    pc \in {"returned", "raised"} => ~zipExists /\ ~dirExists

\* C2: a '.txt' file whose reading or processing raises contributes no
\* record and does not abort the load: no exception leaves load_from_url
\* once a file was visited, the records built so far are those of a walk
\* over the visited files with the failing ones taken out, and the call
\* returns only after every file was visited.
C2_FailingFileOnlySkipped ==
    /\ pc = "raised" => idx = 0
    /\ pc \in {"walk", "rmzip", "cleaned", "returned"} =>
          legal_documents =
              WalkRecords(SelectSeq(SubSeq(archive, 1, idx), IsNotFailingFile))
    /\ pc = "returned" => idx = Len(archive)

\* C2 witness: the call returned, the first file failed and the second one
\* still contributed its record.
C2_Witness ==
    /\ pc = "returned"
    /\ Len(archive) = 2
    /\ IsFailingFile(archive[1])
    /\ Contributes(archive[2])
    /\ Len(legal_documents) = 1

\* C3: clean_text applied to its own output returns it unchanged.
C3_Idempotent ==
    (ccalls >= 2 /\ cdoc.kind = "str") => cout = cprev

\* C4: the output of clean_text on a string has no space immediately
\* followed by a newline, and "a \n b" becomes "a\nb".
C4_NoSpaceAroundNewline ==
    (ccalls = 1 /\ cdoc.kind = "str") =>
        /\ NoSpaceBeforeNewline(cout.chars)
        /\ cdoc.chars = <<"a", SP, NL, SP, "b">> => cout.chars = <<"a", NL, "b">>

\* C5: the output of clean_text on a string has no run of three or more
\* newlines; on a string without spaces every run of two or more newlines
\* becomes exactly two, and "a\n\n\n\nb" becomes "a\n\nb".
C5_NoThreeNewlines ==
    (ccalls >= 1 /\ cprev.kind = "str") =>
        /\ NoThreeNewlines(cout.chars)
        /\ (\A i \in 1..Len(cprev.chars) : cprev.chars[i] # SP) =>
               cout.chars = RunsCutToTwo(cprev.chars)
        /\ cprev.chars = <<"a", NL, NL, NL, NL, "b">> =>
               cout.chars = <<"a", NL, NL, "b">>

\* C5 witness: clean_text was called on "a\n\n\n\nb".
C5_Witness ==
    ccalls = 1 /\ cprev = StrVal(<<"a", NL, NL, NL, NL, "b">>)

\* C6 as stated: the Text of the record of a file is the lines that are
\* not blank, as they appear in the file, after the first one, joined with
\* a newline.
C6_LinesKeptAsRead ==
    (pc = "returned" /\ Len(legal_documents) = 1) =>
        legal_documents[1].Text = Join(Tail(KeptAsRead))

\* C6 amended: the lines that are blank are dropped, every other line is
\* kept in order with its leading and trailing spaces removed, and the
\* Text of the record is the kept lines after the first one, joined with a
\* newline.
C6_LinesKeptStripped ==
    (pc = "returned" /\ Len(legal_documents) = 1) =>
        legal_documents[1].Text =
            Join(Tail([i \in DOMAIN KeptAsRead |-> StripSpaces(KeptAsRead[i])]))

\* C6 witness: a record was built from a file with two kept lines after
\* the first, one of them with a space at its end.
C6_Witness ==
    /\ pc = "returned"
    /\ Len(legal_documents) = 1
    /\ Len(KeptAsRead) = 3
    /\ StripSpaces(KeptAsRead[2]) # KeptAsRead[2]

C8_ValueErrorBeforeRows ==
    "Text" \notin csv.columns =>
        /\ cpc \in {"start", "read", "value_error"}
        /\ clean_col = <<>>
        /\ text_list = <<>>
        /\ csv_documents = <<>>

\* C8 witness: ValueError on a table that has rows.
C8_Witness ==
    cpc = "value_error" /\ Len(csv.cells) > 0 /\ "Text" \notin csv.columns

C10_TitleNotEmpty ==
    \A i \in 1..Len(legal_documents) : legal_documents[i].Title # <<>>

====
